---- MODULE Spec2Model ----
(***************************************************************************)
(* Model of the FastAPI auth module of xerppy-core:                        *)
(*   backend/app/modules/auth/{service,repository,router}.py,               *)
(*   backend/app/scripts/create_admin.py, backend/app/main.py (lifespan),   *)
(*   backend/alembic/versions/0001_initial_auth_schema.py (the schema).     *)
(* The committed database is the five tables; every request and every      *)
(* seeding run is a process with its own session, and each commit of the    *)
(* code is one step that the unique indexes of the schema may reject.       *)
(***************************************************************************)
EXTENDS Integers, Sequences, FiniteSets, TLC

VARIABLES
    users,             \* table users: rows [id, username, email, hashed_password, is_active]
    roles,             \* table roles: rows [id, name]
    permissions,       \* table permissions: rows [id, name]
    user_roles,        \* table user_roles: pairs <<user_id, role_id>>
    role_permissions,  \* table role_permissions: pairs <<role_id, permission_id>>
    tokens,            \* bearer tokens handed out by login
    pc,                \* request workers: position inside register_user
    req,               \* request workers: the UserCreate being registered (+ role_name, user id)
    last,              \* the response of the request (or script) that finished last
    cpc,               \* create_admin script: position inside create_admin_async
    creq,              \* create_admin script: its arguments
    spc,               \* seeding runs: position inside seed_default_roles_and_permissions
    pending,           \* seeding runs: objects added to the session, not yet committed
    all_perms,         \* seeding runs: the result of perm_repo.get_all()
    new_perms,         \* seeding runs: the permissions to append to admin_role.permissions
    seedRuns,          \* history: number of seeding runs that returned
    interrupted,       \* history: commit points after which some seeding run was cut off
    created,           \* history, by user id: the plaintext the account was created with
                       \* and whether its default role was found
    now,               \* datetime.utcnow(), in ticks of half a second
    jwt_secret_key,    \* settings.jwt_secret_key
    issued,            \* history: every token issued, with the time and the
                       \* expires_delta it was created with
    orphaned,          \* history: the tokens that named a user whose row was deleted
    db_session,        \* request workers: the session get_db handed to the request
    state,             \* a BaseFlow instance: self.state
    is_setup           \* a BaseFlow instance: self._is_setup

vars == <<users, roles, permissions, user_roles, role_permissions, tokens,
          pc, req, last, cpc, creq, spc, pending, all_perms, new_perms,
          seedRuns, interrupted, created, now, jwt_secret_key, issued, orphaned,
          db_session, state, is_setup>>

store == <<users, roles, permissions, user_roles, role_permissions>>

----------------------------------------------------------------------------
(* Inputs *)

Workers == {"w1", "w2"}
Seeders == {"s1", "s2"}

\* username is an unconstrained str (schemas.py:10); email is an EmailStr.
Usernames == {"alice", "a@x.com"}
Emails == {"a@x.com", "b@x.com"}

MaxSeedRuns == 3

NoUser == [id |-> 0]
NoRow == [id |-> 0]
\* the None of an Optional[str]
None == "<None>"

----------------------------------------------------------------------------
(* Passwords: a password is a sequence of characters, a hash input is the  *)
(* sequence of bytes of its UTF-8 encoding.                                 *)

BCRYPT_MAX_PASSWORD_LENGTH == 72

\* "a", "b" are one-byte characters, "E" is a two-byte character (U+00E9).
Utf8(c) == IF c = "a" THEN <<97>> ELSE IF c = "b" THEN <<98>> ELSE <<195, 169>>

RECURSIVE Encode(_)
Encode(s) == IF s = <<>> THEN <<>> ELSE Utf8(Head(s)) \o Encode(Tail(s))

\* bytes.decode('utf-8', errors='ignore'): malformed or cut-off sequences are dropped.
RECURSIVE Decode(_)
Decode(b) ==
    IF b = <<>> THEN <<>>
    ELSE IF b[1] = 97 THEN <<"a">> \o Decode(Tail(b))
    ELSE IF b[1] = 98 THEN <<"b">> \o Decode(Tail(b))
    ELSE IF b[1] = 195 /\ Len(b) >= 2 /\ b[2] = 169 THEN <<"E">> \o Decode(Tail(Tail(b)))
    ELSE Decode(Tail(b))

Take(b, n) == IF Len(b) > n THEN SubSeq(b, 1, n) ELSE b

\* pwd_context.hash / pwd_context.verify with the bcrypt scheme: the digest is a
\* one-way function of the first 72 bytes of the encoded secret.
Bcrypt(password) == [scheme |-> "bcrypt", digest_of |-> Take(Encode(password), 72)]


get_password_hash(password) ==
    LET password_bytes == Encode(password) IN
    IF Len(password_bytes) > BCRYPT_MAX_PASSWORD_LENGTH
    THEN Bcrypt(Decode(SubSeq(password_bytes, 1, BCRYPT_MAX_PASSWORD_LENGTH)))
    ELSE Bcrypt(password)

PwShort == <<"a", "b">>
PwOther == <<"b", "a">>
\* 71 one-byte characters and a two-byte one: 73 bytes.
PwLong == [i \in 1..71 |-> "a"] \o <<"E">>

RegPasswords == {PwShort, PwLong}
LoginPasswords == {PwShort, PwOther, PwLong}

\* The two functions tabulated over the passwords that are typed in.
BcryptOf == [p \in LoginPasswords |-> Bcrypt(p)]
HashOf == [p \in RegPasswords |-> get_password_hash(p)]

verify_password(plain_password, hashed_password) ==
    BcryptOf[plain_password] = hashed_password

----------------------------------------------------------------------------
(* Repositories: lookups on the committed tables *)

MaxOf(S) == IF S = {} THEN 0 ELSE CHOOSE m \in S : \A x \in S : x <= m
NextId(table) == MaxOf({row.id : row \in table}) + 1

\* scalar_one_or_none() of a select on a uniquely indexed column.
OneOrNone(S) == IF S = {} THEN NoRow ELSE CHOOSE row \in S : TRUE

get_by_username(username) == OneOrNone({u \in users : u.username = username})
get_by_email(email) == OneOrNone({u \in users : u.email = email})
role_get_by_name(rs, name) == OneOrNone({r \in rs : r.name = name})

Found(row) == row.id # 0

\* [role.name for role in user.roles], in primary-key order of the association rows.
RoleIdsOf(uid) == {ur[2] : ur \in {x \in user_roles : x[1] = uid}}
RECURSIVE SortedNames(_)
SortedNames(ids) ==
    IF ids = {} THEN <<>>
    ELSE LET m == CHOOSE i \in ids : \A j \in ids : i <= j
             named == {r \in roles : r.id = m}
         IN (IF named = {} THEN <<>> ELSE <<(CHOOSE r \in named : TRUE).name>>)
            \o SortedNames(ids \ {m})
RoleNamesOf(uid) == SortedNames(RoleIdsOf(uid))

\* (mutation: the indexes on users are not unique)
UsersUniqueOk_NoIndex(table, row) == TRUE

\* ix_users_username and ix_users_email are unique indexes.
UsersUniqueOk(table, row) ==
    /\ \A u \in table : u.username # row.username
    /\ \A u \in table : u.email # row.email

\* ix_roles_name / ix_permissions_name are unique indexes.
NamesUniqueOk(table, names) ==
    /\ \A i \in 1..Len(names) : \A row \in table : row.name # names[i]
    /\ \A i, j \in 1..Len(names) : i # j => names[i] # names[j]

\* pk_user_roles / pk_role_permissions: composite primary keys.
PairsUniqueOk(table, pairs) == \A p \in pairs : p \notin table

\* INSERT of the pending rows in the order they were added; ids are autoincremented.
RECURSIVE InsertNamed(_, _)
InsertNamed(table, names) ==
    IF names = <<>> THEN table
    ELSE InsertNamed(table \cup {[id |-> NextId(table), name |-> Head(names)]}, Tail(names))

----------------------------------------------------------------------------
(* Seeding: PermissionRepository.seed_defaults, RoleRepository.seed_defaults *)
(* and AuthService.seed_default_roles_and_permissions                        *)

default_permissions ==
    <<"users.read", "users.write", "users.delete",
      "roles.read", "roles.write", "roles.delete">>
default_roles == <<"admin", "user">>

SeqToSet(q) == {q[i] : i \in 1..Len(q)}
SeedPermNames == SeqToSet(default_permissions)
SeedRoleNames == SeqToSet(default_roles)
\* a permission an administrator adds besides the seeded ones
ExtraPermNames == {"reports.read"}

\* (mutation: the seed step adds every default without looking it up first)
MissingNames_NoLookup(table, names) == names

\* for data in defaults: existing = get_by_name(name); if not existing: session.add(...)
MissingNames(table, names) ==
    SelectSeq(names, LAMBDA n : \A row \in table : row.name # n)

\* session.commit() of pending named rows: [ok, table]
CommitNamed(table, names) ==
    IF NamesUniqueOk(table, names)
    THEN [ok |-> TRUE, table |-> InsertNamed(table, names)]
    ELSE [ok |-> FALSE, table |-> table]

PermIdsOfRole(rps, rid) == {rp[2] : rp \in {x \in rps : x[1] = rid}}

\* (mutation: every permission is appended again, already granted or not)
NewPerms_NoFilter(perms, rps, admin_role) == perms

\* (mutation: only the seeded permissions are considered for the admin role)
NewPerms_SeedOnly(perms, rps, admin_role) ==
    {perm \in perms : /\ perm.name \in SeedPermNames
                      /\ perm.id \notin PermIdsOfRole(rps, admin_role.id)}

\* (mutation: nothing is appended to the admin role)
NewPerms_None(perms, rps, admin_role) == {}

\* new_perms = [perm for perm in all_perms if perm.id not in existing_perm_ids]
NewPerms(perms, rps, admin_role) ==
    LET existing_perm_ids == PermIdsOfRole(rps, admin_role.id)
    IN {perm \in perms : perm.id \notin existing_perm_ids}

\* admin_role.permissions.extend(new_perms); session.commit(): [ok, table]
CommitGrants(rps, admin_role, appended) ==
    LET rows == {<<admin_role.id, perm.id>> : perm \in appended}
    IN IF PairsUniqueOk(rps, rows)
       THEN [ok |-> TRUE, table |-> rps \cup rows]
       ELSE [ok |-> FALSE, table |-> rps]

\* AuthService.seed_default_roles_and_permissions run from start to end on the
\* tables g = [roles, permissions, role_permissions]; ok is FALSE when a commit raised.
seed_default_roles_and_permissions(g) ==
    LET pcommit == CommitNamed(g.permissions,
                               MissingNames(g.permissions, default_permissions))
        rcommit == CommitNamed(g.roles, MissingNames(g.roles, default_roles))
        admin_role == role_get_by_name(rcommit.table, "admin")
        gcommit == CommitGrants(g.role_permissions, admin_role,
                                NewPerms(pcommit.table, g.role_permissions, admin_role))
    IN IF ~pcommit.ok THEN [g EXCEPT !.ok = FALSE]
       ELSE IF ~rcommit.ok
            THEN [ok |-> FALSE, roles |-> g.roles, permissions |-> pcommit.table,
                  role_permissions |-> g.role_permissions]
       ELSE IF ~Found(admin_role)
            THEN [ok |-> TRUE, roles |-> rcommit.table, permissions |-> pcommit.table,
                  role_permissions |-> g.role_permissions]
       ELSE [ok |-> gcommit.ok, roles |-> rcommit.table, permissions |-> pcommit.table,
             role_permissions |-> gcommit.table]

Graph == [ok |-> TRUE, roles |-> roles, permissions |-> permissions,
          role_permissions |-> role_permissions]
EmptyGraph == [ok |-> TRUE, roles |-> {}, permissions |-> {}, role_permissions |-> {}]

AdminRole == role_get_by_name(roles, "admin")
AdminPermIds == PermIdsOfRole(role_permissions, AdminRole.id)

Running(s) == spc[s] \notin {"idle", "done", "failed"}

\* A run starts: application startup (main.py lifespan). One run at a time.
SeedStart(s) ==
    /\ spc[s] \in {"idle", "done"}
    /\ \A t \in Seeders : ~Running(t)
    /\ seedRuns < MaxSeedRuns
    /\ spc' = [spc EXCEPT ![s] = "perm_seed"]
    /\ pending' = [pending EXCEPT ![s] = <<>>]
    /\ all_perms' = [all_perms EXCEPT ![s] = {}]
    /\ new_perms' = [new_perms EXCEPT ![s] = {}]
    /\ UNCHANGED <<db_session, state, is_setup, orphaned, now, jwt_secret_key, issued, store, tokens, pc, req, last, cpc, creq, seedRuns, interrupted,
                   created>>

\* A second process starts its run while a run is under way: two application
\* startups, or a startup alongside scripts/create_admin.py. Each has its own session.
SeedStartAlongside(s) ==
    /\ spc[s] \in {"idle", "done"}
    /\ \E t \in Seeders : Running(t)
    /\ seedRuns < MaxSeedRuns
    /\ spc' = [spc EXCEPT ![s] = "perm_seed"]
    /\ pending' = [pending EXCEPT ![s] = <<>>]
    /\ all_perms' = [all_perms EXCEPT ![s] = {}]
    /\ new_perms' = [new_perms EXCEPT ![s] = {}]
    /\ UNCHANGED <<db_session, state, is_setup, orphaned, now, jwt_secret_key, issued, store, tokens, pc, req, last, cpc, creq, seedRuns, interrupted,
                   created>>

\* perm_repo.seed_defaults(), the loop
PermSeedAdd(s) ==
    /\ spc[s] = "perm_seed"
    /\ pending' = [pending EXCEPT ![s] = MissingNames(permissions, default_permissions)]
    /\ spc' = [spc EXCEPT ![s] = "perm_commit"]
    /\ UNCHANGED <<db_session, state, is_setup, orphaned, now, jwt_secret_key, issued, store, tokens, pc, req, last, cpc, creq, all_perms, new_perms, seedRuns,
                   interrupted, created>>

\* perm_repo.seed_defaults(), the commit
PermSeedCommit(s) ==
    /\ spc[s] = "perm_commit"
    /\ LET c == CommitNamed(permissions, pending[s]) IN
         /\ permissions' = c.table
         /\ spc' = [spc EXCEPT ![s] = IF c.ok THEN "role_seed" ELSE "failed"]
    /\ pending' = [pending EXCEPT ![s] = <<>>]
    /\ UNCHANGED <<db_session, state, is_setup, orphaned, now, jwt_secret_key, issued, users, roles, user_roles, role_permissions, tokens, pc, req, last,
                   cpc, creq, all_perms, new_perms, seedRuns, interrupted, created>>

\* role_repo.seed_defaults(), the loop
RoleSeedAdd(s) ==
    /\ spc[s] = "role_seed"
    /\ pending' = [pending EXCEPT ![s] = MissingNames(roles, default_roles)]
    /\ spc' = [spc EXCEPT ![s] = "role_commit"]
    /\ UNCHANGED <<db_session, state, is_setup, orphaned, now, jwt_secret_key, issued, store, tokens, pc, req, last, cpc, creq, all_perms, new_perms, seedRuns,
                   interrupted, created>>

\* role_repo.seed_defaults(), the commit
RoleSeedCommit(s) ==
    /\ spc[s] = "role_commit"
    /\ LET c == CommitNamed(roles, pending[s]) IN
         /\ roles' = c.table
         /\ spc' = [spc EXCEPT ![s] = IF c.ok THEN "grant" ELSE "failed"]
    /\ pending' = [pending EXCEPT ![s] = <<>>]
    /\ UNCHANGED <<db_session, state, is_setup, orphaned, now, jwt_secret_key, issued, users, permissions, user_roles, role_permissions, tokens, pc, req,
                   last, cpc, creq, all_perms, new_perms, seedRuns, interrupted, created>>

\* select(Role).where(name == "admin"); all_perms = perm_repo.get_all()
GrantRead(s) ==
    /\ spc[s] = "grant"
    /\ IF Found(AdminRole)
       THEN /\ all_perms' = [all_perms EXCEPT ![s] = permissions]
            /\ new_perms' = [new_perms EXCEPT ![s] =
                                NewPerms(permissions, role_permissions, AdminRole)]
            /\ spc' = [spc EXCEPT ![s] = "grant_commit"]
            /\ UNCHANGED seedRuns
       ELSE /\ spc' = [spc EXCEPT ![s] = "done"]
            /\ seedRuns' = seedRuns + 1
            /\ UNCHANGED <<all_perms, new_perms>>
    /\ UNCHANGED <<db_session, state, is_setup, orphaned, now, jwt_secret_key, issued, store, tokens, pc, req, last, cpc, creq, pending, interrupted,
                   created>>

\* admin_role.permissions.extend(new_perms); session.commit()
GrantCommit(s) ==
    /\ spc[s] = "grant_commit"
    /\ Found(AdminRole)
    /\ LET c == CommitGrants(role_permissions, AdminRole, new_perms[s]) IN
         /\ role_permissions' = c.table
         /\ spc' = [spc EXCEPT ![s] = IF c.ok THEN "done" ELSE "failed"]
         /\ seedRuns' = IF c.ok THEN seedRuns + 1 ELSE seedRuns
    /\ UNCHANGED <<db_session, state, is_setup, orphaned, now, jwt_secret_key, issued, users, roles, permissions, user_roles, tokens, pc, req, last,
                   cpc, creq, pending, all_perms, new_perms, interrupted, created>>

\* "role_seed": the permissions are committed; "grant": the roles are committed;
\* "grant_commit": the grants are about to be committed.
CommitPoints == {"role_seed", "grant", "grant_commit"}

\* The process running the seeding is stopped (or its step raises): the session is
\* discarded with whatever it had not committed.
SeedInterrupt(s) ==
    /\ Running(s)
    /\ interrupted' = interrupted \cup ({spc[s]} \cap CommitPoints)
    /\ spc' = [spc EXCEPT ![s] = "idle"]
    /\ pending' = [pending EXCEPT ![s] = <<>>]
    /\ all_perms' = [all_perms EXCEPT ![s] = {}]
    /\ new_perms' = [new_perms EXCEPT ![s] = {}]
    /\ UNCHANGED <<db_session, state, is_setup, orphaned, now, jwt_secret_key, issued, store, tokens, pc, req, last, cpc, creq, seedRuns, created>>

\* PermissionRepository.create: an administrator adds a permission
AdminCreatePermission(name) ==
    /\ LET c == CommitNamed(permissions, <<name>>) IN
         /\ c.ok
         /\ permissions' = c.table
    /\ UNCHANGED <<db_session, state, is_setup, orphaned, now, jwt_secret_key, issued, users, roles, user_roles, role_permissions, tokens, pc, req, last,
                   cpc, creq, spc, pending, all_perms, new_perms, seedRuns, interrupted,
                   created>>

\* no session is handed out; a session is [state, pending, outcome]: pending holds
\* the objects added and not committed, outcome is how the handler left
NoSession == [state |-> "none", pending |-> {}, outcome |-> "none"]

\* FlowStateModel(flow_id, name, status="initialized"): an Optional[datetime] is <<>>
\* for None and <<t>> for a time
FlowStateModel ==
    [status |-> "initialized", started_at |-> <<>>, completed_at |-> <<>>,
     inputs |-> <<>>, outputs |-> <<>>, error |-> None]

InitStore ==
    /\ users = {}
    /\ roles = {}
    /\ permissions = {}
    /\ user_roles = {}
    /\ role_permissions = {}

Init ==
    /\ InitStore
    /\ tokens = {}
    /\ pc = [w \in Workers |-> "idle"]
    /\ req = [w \in Workers |-> NoUser]
    /\ last = [op |-> "none"]
    /\ cpc = "idle"
    /\ creq = NoUser
    /\ spc = [s \in Seeders |-> "idle"]
    /\ pending = [s \in Seeders |-> <<>>]
    /\ all_perms = [s \in Seeders |-> {}]
    /\ new_perms = [s \in Seeders |-> {}]
    /\ seedRuns = 0
    /\ interrupted = {}
    /\ created = <<>>
    /\ now = 0
    /\ jwt_secret_key = "your-secret-key-change-in-production"
    /\ issued = {}
    /\ orphaned = {}
    /\ db_session = [w \in Workers |-> NoSession]
    /\ state = FlowStateModel
    /\ is_setup = FALSE

NextSeed ==
    \/ \E s \in Seeders : SeedStart(s)
    \/ \E s \in Seeders : PermSeedAdd(s)
    \/ \E s \in Seeders : PermSeedCommit(s)
    \/ \E s \in Seeders : RoleSeedAdd(s)
    \/ \E s \in Seeders : RoleSeedCommit(s)
    \/ \E s \in Seeders : GrantRead(s)
    \/ \E s \in Seeders : GrantCommit(s)
    \/ \E s \in Seeders : SeedInterrupt(s)
    \/ \E name \in ExtraPermNames : AdminCreatePermission(name)

SpecSeed == Init /\ [][NextSeed]_vars

\* Seeding runs of several processes, their selects and commits interleaved.
NextSeedRace ==
    \/ \E s \in Seeders : SeedStart(s)
    \/ \E s \in Seeders : SeedStartAlongside(s)
    \/ \E s \in Seeders : PermSeedAdd(s)
    \/ \E s \in Seeders : PermSeedCommit(s)
    \/ \E s \in Seeders : RoleSeedAdd(s)
    \/ \E s \in Seeders : RoleSeedCommit(s)
    \/ \E s \in Seeders : GrantRead(s)
    \/ \E s \in Seeders : GrantCommit(s)
    \/ \E name \in ExtraPermNames : AdminCreatePermission(name)

SpecSeedRace == Init /\ [][NextSeedRace]_vars

----------------------------------------------------------------------------
(* router.py: the responses of the endpoints *)

Response(op, status, detail) == [op |-> op, status |-> status, detail |-> detail]

\* (mutation: the 400 does not say which field is taken)
register_error_Unnamed(exception, message) ==
    IF exception = "ValueError"
    THEN [op |-> "register", status |-> 400, detail |-> "Registration failed"]
    ELSE [op |-> "register", status |-> 500, detail |-> "Internal Server Error"]

\* register: "except ValueError as e" becomes 400 with str(e); any other exception
\* leaves the handler and the framework answers 500.
register_error(exception, message) ==
    IF exception = "ValueError"
    THEN Response("register", 400, message)
    ELSE Response("register", 500, "Internal Server Error")

\* (mutation: the message tells an unknown account from a wrong password)
login_unauthorized_Telling(found) ==
    [op |-> "login", status |-> 401,
     detail |-> IF found THEN "Incorrect password" ELSE "User not found",
     headers |-> "WWW-Authenticate: Bearer", found |-> found]

\* login, "if not user": HTTPException(401, ..., headers={"WWW-Authenticate": "Bearer"})
login_unauthorized(found) ==
    [op |-> "login", status |-> 401, detail |-> "Incorrect username or password",
     headers |-> "WWW-Authenticate: Bearer", found |-> found]

----------------------------------------------------------------------------
(* AuthService.register_user behind POST /auth/register, one step per commit *)

UserData == [username : Usernames, email : Emails, password : RegPasswords]
\* the registrations that race each other all use the short password
RaceData == [username : Usernames, email : Emails, password : {PwShort}]

\* session.commit() of a new users row: [ok, table]
CommitUser(table, row) ==
    IF UsersUniqueOk(table, row)
    THEN [ok |-> TRUE, table |-> table \cup {row}]
    ELSE [ok |-> FALSE, table |-> table]

NewUserRow(username, email, password) ==
    [id |-> NextId(users), username |-> username, email |-> email,
     hashed_password |-> HashOf[password], is_active |-> TRUE]

\* (mutation: the role is looked up and never appended)
WithRole_Dropped(table, uid, role) == table

\* (mutation: the role is appended without "if role")
WithRole_Unchecked(table, uid, role) == table \cup {<<uid, role.id>>}

\* user.roles.append(role) if the role exists
WithRole(table, uid, role) ==
    IF Found(role) THEN table \cup {<<uid, role.id>>} ELSE table

\* user_repo.update(user): the commit of the appended user_roles row succeeds unless
\* the pair is in the table already (pk_user_roles)
RoleCommitOk(table, uid, role) ==
    ~Found(role) \/ PairsUniqueOk(table, {<<uid, role.id>>})

\* existing_user = get_by_username(username); raise ValueError
RegCheckUsername(w, user_data, role_name) ==
    /\ pc[w] = "idle"
    /\ IF Found(get_by_username(user_data.username))
       THEN /\ last' = register_error("ValueError", "Username already registered")
            /\ UNCHANGED <<pc, req>>
       ELSE /\ pc' = [pc EXCEPT ![w] = "reg_email"]
            /\ req' = [req EXCEPT ![w] = user_data @@ [role_name |-> role_name, id |-> 0]]
            /\ UNCHANGED last
    /\ UNCHANGED <<db_session, state, is_setup, orphaned, now, jwt_secret_key, issued, store, tokens, cpc, creq, spc, pending, all_perms, new_perms,
                   seedRuns, interrupted, created>>

\* existing_email = get_by_email(email); raise ValueError
RegCheckEmail(w) ==
    /\ pc[w] = "reg_email"
    /\ IF Found(get_by_email(req[w].email))
       THEN /\ last' = register_error("ValueError", "Email already registered")
            /\ pc' = [pc EXCEPT ![w] = "idle"]
            /\ req' = [req EXCEPT ![w] = NoUser]
       ELSE /\ pc' = [pc EXCEPT ![w] = "reg_create"]
            /\ UNCHANGED <<req, last>>
    /\ UNCHANGED <<db_session, state, is_setup, orphaned, now, jwt_secret_key, issued, store, tokens, cpc, creq, spc, pending, all_perms, new_perms,
                   seedRuns, interrupted, created>>

\* user = User(...); user_repo.create(user): add, commit, refresh
RegCreate(w) ==
    /\ pc[w] = "reg_create"
    /\ LET row == NewUserRow(req[w].username, req[w].email, req[w].password)
           c == CommitUser(users, row)
       IN /\ users' = c.table
          /\ IF c.ok
             THEN /\ pc' = [pc EXCEPT ![w] = "reg_role"]
                  /\ req' = [req EXCEPT ![w].id = row.id]
                  /\ created' = Append(created, [password |-> req[w].password, role_found |-> FALSE])
                  /\ UNCHANGED last
             ELSE /\ pc' = [pc EXCEPT ![w] = "idle"]
                  /\ req' = [req EXCEPT ![w] = NoUser]
                  /\ last' = register_error("IntegrityError", "UNIQUE constraint failed")
                  /\ UNCHANGED created
    /\ UNCHANGED <<db_session, state, is_setup, orphaned, now, jwt_secret_key, issued, roles, permissions, user_roles, role_permissions, tokens, cpc, creq,
                   spc, pending, all_perms, new_perms, seedRuns, interrupted>>

\* role = role_repo.get_by_name(role_name); if role: user.roles.append(role); update
RegAssignRole(w) ==
    /\ pc[w] = "reg_role"
    /\ IF RoleCommitOk(user_roles, req[w].id, role_get_by_name(roles, req[w].role_name))
       THEN /\ user_roles' = WithRole(user_roles, req[w].id,
                                      role_get_by_name(roles, req[w].role_name))
            /\ last' = Response("register", 201, "Created") @@ [id |-> req[w].id]
       ELSE /\ UNCHANGED user_roles
            /\ last' = register_error("IntegrityError", "UNIQUE constraint failed")
    /\ created' = [created EXCEPT ![req[w].id].role_found =
                        Found(role_get_by_name(roles, req[w].role_name))]
    /\ pc' = [pc EXCEPT ![w] = "idle"]
    /\ req' = [req EXCEPT ![w] = NoUser]
    /\ UNCHANGED <<db_session, state, is_setup, orphaned, now, jwt_secret_key, issued, users, roles, permissions, role_permissions, tokens, cpc, creq,
                   spc, pending, all_perms, new_perms, seedRuns, interrupted>>

\* (mutation: a duplicate username overwrites the hash of the existing account
\* before the error is raised)
RegisterUser_Overwrite(user_data, role_name) ==
    /\ \A w \in Workers : pc[w] = "idle"
    /\ LET row == NewUserRow(user_data.username, user_data.email, user_data.password)
           c == CommitUser(users, row)
       IN IF Found(get_by_username(user_data.username))
          THEN /\ last' = register_error("ValueError", "Username already registered")
               /\ users' = {IF u.username = user_data.username
                            THEN [u EXCEPT !.hashed_password = row.hashed_password]
                            ELSE u : u \in users}
               /\ UNCHANGED <<user_roles, created>>
          ELSE IF Found(get_by_email(user_data.email))
          THEN /\ last' = register_error("ValueError", "Email already registered")
               /\ UNCHANGED <<users, user_roles, created>>
          ELSE IF ~c.ok
          THEN /\ last' = register_error("IntegrityError", "UNIQUE constraint failed")
               /\ UNCHANGED <<users, user_roles, created>>
          ELSE /\ users' = c.table
               /\ created' = Append(created, [password |-> user_data.password,
                                            role_found |-> Found(role_get_by_name(roles, role_name))])
               /\ user_roles' = WithRole(user_roles, row.id, role_get_by_name(roles, role_name))
               /\ last' = Response("register", 201, "Created") @@ [id |-> row.id]
    /\ UNCHANGED <<db_session, state, is_setup, orphaned, now, jwt_secret_key, issued, roles, permissions, role_permissions, tokens, pc, req, cpc, creq,
                   spc, pending, all_perms, new_perms, seedRuns, interrupted>>

\* register_user from its first select to its return, no other request in between
RegisterUser(user_data, role_name) ==
    /\ \A w \in Workers : pc[w] = "idle"
    /\ LET row == NewUserRow(user_data.username, user_data.email, user_data.password)
           c == CommitUser(users, row)
       IN IF Found(get_by_username(user_data.username))
          THEN /\ last' = register_error("ValueError", "Username already registered")
               /\ UNCHANGED <<users, user_roles, created>>
          ELSE IF Found(get_by_email(user_data.email))
          THEN /\ last' = register_error("ValueError", "Email already registered")
               /\ UNCHANGED <<users, user_roles, created>>
          ELSE IF ~c.ok
          THEN /\ last' = register_error("IntegrityError", "UNIQUE constraint failed")
               /\ UNCHANGED <<users, user_roles, created>>
          ELSE /\ users' = c.table
               /\ created' = Append(created, [password |-> user_data.password,
                                            role_found |-> Found(role_get_by_name(roles, role_name))])
               /\ IF RoleCommitOk(user_roles, row.id, role_get_by_name(roles, role_name))
                  THEN /\ user_roles' = WithRole(user_roles, row.id,
                                                 role_get_by_name(roles, role_name))
                       /\ last' = Response("register", 201, "Created") @@ [id |-> row.id]
                  ELSE /\ UNCHANGED user_roles
                       /\ last' = register_error("IntegrityError", "UNIQUE constraint failed")
    /\ UNCHANGED <<db_session, state, is_setup, orphaned, now, jwt_secret_key, issued, roles, permissions, role_permissions, tokens, pc, req, cpc, creq,
                   spc, pending, all_perms, new_perms, seedRuns, interrupted>>

----------------------------------------------------------------------------
(* AuthService.authenticate_user and POST /auth/login, GET /auth/me *)

\* (mutation: the email lookup first, the username lookup as the fallback)
LookupUser_EmailFirst(username) ==
    LET by_email == get_by_email(username)
    IN IF Found(by_email) THEN by_email ELSE get_by_username(username)

\* user = get_by_username(username); if not user: user = get_by_email(username)
LookupUser(username) ==
    LET by_username == get_by_username(username)
    IN IF Found(by_username) THEN by_username ELSE get_by_email(username)

authenticate_user(username, password) ==
    LET user == LookupUser(username)
    IN IF ~Found(user) THEN NoUser
       ELSE IF ~verify_password(password, user.hashed_password) THEN NoUser
       ELSE user

Identifiers == Usernames \cup Emails \cup {"nobody"}

----------------------------------------------------------------------------
(* JSON web tokens: settings.py, create_access_token, decode_access_token *)

jwt_access_token_expire_minutes == 30

\* The clock counts ticks of half a second; a timedelta is a number of ticks.
TicksPerSecond == 2
Minutes(m) == m * 60 * TicksPerSecond

\* jwt.encode turns the datetime of "exp" into whole seconds: timegm(d.utctimetuple())
timegm(t) == t \div TicksPerSecond

RotatedSecret == "rotated-secret"
Secrets == {"your-secret-key-change-in-production", RotatedSecret}

\* Optional[timedelta]: <<>> is None, <<d>> is a timedelta of d ticks.
\* "if expires_delta:" is false for None and for timedelta(0).
Truthy(expires_delta) == expires_delta # <<>> /\ expires_delta[1] # 0

\* dict.get(key): None when the key is absent
Get(dict, key) == IF key \in DOMAIN dict THEN dict[key] ELSE None

\* jwt.encode(claims, key, algorithm): header.payload.signature, the signature being
\* the HMAC of header.payload under the key
jwt_encode(claims, key) ==
    [segments |-> 3, payload |-> [claims EXCEPT !.exp = timegm(@)], signed_with |-> key]

create_access_token(data, expires_delta) ==
    LET expire == IF Truthy(expires_delta)
                  THEN now + expires_delta[1]
                  ELSE now + Minutes(jwt_access_token_expire_minutes)
        to_encode == data @@ [exp |-> expire]
    IN jwt_encode(to_encode, jwt_secret_key)

\* JWTError and its subclasses ExpiredSignatureError, JWTClaimsError
JWTErrors == {"JWTError", "ExpiredSignatureError", "JWTClaimsError"}

\* (mutation: the signature is not verified)
jwt_decode_Unverified(token, key) ==
    IF token.segments # 3 THEN [error |-> "JWTError", payload |-> <<>>]
    ELSE IF token.payload.exp < timegm(now)
    THEN [error |-> "ExpiredSignatureError", payload |-> <<>>]
    ELSE [error |-> "", payload |-> token.payload]

\* (mutation: a token is expired from the second of its exp on)
jwt_decode_ExpiredAtExp(token, key) ==
    IF token.segments # 3 THEN [error |-> "JWTError", payload |-> <<>>]
    ELSE IF token.signed_with # key THEN [error |-> "JWTError", payload |-> <<>>]
    ELSE IF token.payload.exp <= timegm(now)
    THEN [error |-> "ExpiredSignatureError", payload |-> <<>>]
    ELSE [error |-> "", payload |-> token.payload]

\* jwt.decode(token, key, algorithms): JWTError for a token that does not split into
\* three segments or whose signature does not verify, ExpiredSignatureError when
\* exp < timegm(utcnow)
jwt_decode(token, key) ==
    IF token.segments # 3 THEN [error |-> "JWTError", payload |-> <<>>]
    ELSE IF token.signed_with # key THEN [error |-> "JWTError", payload |-> <<>>]
    ELSE IF token.payload.exp < timegm(now)
    THEN [error |-> "ExpiredSignatureError", payload |-> <<>>]
    ELSE [error |-> "", payload |-> token.payload]

\* the None of Optional[TokenData]
NoClaims == [username |-> "", role |-> ""]
\* an exception that leaves decode_access_token
Raised(error) == [raised |-> error]

\* (mutation: "except JWTError" does not cover the expiry error)
decode_access_token_ExpiryRaises(token) ==
    LET decoded == jwt_decode(token, jwt_secret_key)
        username == Get(decoded.payload, "sub")
    IN IF decoded.error = "ExpiredSignatureError" THEN Raised(decoded.error)
       ELSE IF decoded.error # "" THEN NoClaims
       ELSE IF username = None THEN NoClaims
       ELSE [username |-> username, role |-> Get(decoded.payload, "role")]

decode_access_token(token) ==
    LET decoded == jwt_decode(token, jwt_secret_key)
        username == Get(decoded.payload, "sub")
        role == Get(decoded.payload, "role")
    IN IF decoded.error \in JWTErrors THEN NoClaims
       ELSE IF decoded.error # "" THEN Raised(decoded.error)
       ELSE IF username = None THEN NoClaims
       ELSE [username |-> username, role |-> role]

MaxTokens == 2
\* handing out a token (the number of tokens ever issued is capped)
Issue(token, expires_delta) ==
    LET issue == [token |-> token, at |-> now, expires_delta |-> expires_delta]
    IN /\ issue \in issued \/ Cardinality(issued) < MaxTokens
       /\ tokens' = tokens \cup {token}
       /\ issued' = issued \cup {issue}

----------------------------------------------------------------------------
(* POST /auth/login *)

\* (mutation: the token always carries the default role)
primary_role_of_Default(rolenames) == "user"

\* primary_role = roles[0] if roles else "user"
primary_role_of(rolenames) == IF rolenames # <<>> THEN rolenames[1] ELSE "user"

\* (mutation: login does not look at the active flag)
IsInactive_Never(user) == FALSE

\* "if not user.is_active"
IsInactive(user) == ~user.is_active

Login(username, password) ==
    /\ LET user == authenticate_user(username, password)
           rolenames == RoleNamesOf(user.id)
           primary_role == primary_role_of(rolenames)
           access_token == create_access_token([sub |-> user.username,
                                                role |-> primary_role], <<>>)
           login_data == [username |-> username, password |-> password]
       IN IF ~Found(user)
          THEN /\ last' = login_unauthorized(Found(LookupUser(username)))
                             @@ [login_data |-> login_data]
               /\ UNCHANGED <<tokens, issued>>
          ELSE IF IsInactive(user)
          THEN /\ last' = Response("login", 400, "User account is inactive")
                             @@ [login_data |-> login_data]
               /\ UNCHANGED <<tokens, issued>>
          ELSE /\ last' = Response("login", 200, "OK")
                             @@ [access_token |-> access_token, token_type |-> "bearer",
                                 login_data |-> login_data]
               /\ Issue(access_token, <<>>)
    /\ UNCHANGED <<db_session, state, is_setup, orphaned, now, jwt_secret_key, store, pc, req, cpc, creq, spc, pending, all_perms,
                   new_perms, seedRuns, interrupted, created>>

----------------------------------------------------------------------------
(* The access-control gate: get_current_user, get_current_active_user,          *)
(* get_admin_user; "steps" lists the checks a request went through.              *)

Bearer == "WWW-Authenticate: Bearer"
Denied(status, detail, headers, steps) ==
    [ok |-> FALSE, status |-> status, detail |-> detail, headers |-> headers,
     steps |-> steps]

get_current_user(token) ==
    LET token_data == decode_access_token(token)
        user == get_by_username(token_data.username)
    IN IF token_data = NoClaims
       THEN Denied(401, "Invalid or expired token", Bearer, <<"decode">>)
       ELSE IF ~Found(user)
       THEN Denied(401, "User not found", Bearer, <<"decode", "lookup">>)
       ELSE [ok |-> TRUE, steps |-> <<"decode", "lookup">>,
             current_user |-> [id |-> user.id, username |-> user.username,
                               is_active |-> user.is_active,
                               roles |-> RoleNamesOf(user.id)]]

\* (mutation: the active flag is not looked at)
get_current_active_user_Skipped(token) == get_current_user(token)

get_current_active_user(token) ==
    LET dep == get_current_user(token)
    IN IF ~dep.ok THEN dep
       ELSE IF ~dep.current_user.is_active
       THEN Denied(400, "Inactive user", "", Append(dep.steps, "active"))
       ELSE [dep EXCEPT !.steps = Append(@, "active")]

\* (mutation: the admin check reads the role claim of the token)
IsAdmin_FromToken(token, current_user) == token.payload.role = "admin"

\* "admin" in current_user.roles
IsAdmin(token, current_user) == "admin" \in SeqToSet(current_user.roles)

\* (mutation: the admin check comes before the active check)
get_admin_user_AdminFirst(token) ==
    LET dep == get_current_user(token)
    IN IF ~dep.ok THEN dep
       ELSE IF ~IsAdmin(token, dep.current_user)
       THEN Denied(403, "Admin access required", "", Append(dep.steps, "admin"))
       ELSE IF ~dep.current_user.is_active
       THEN Denied(400, "Inactive user", "", dep.steps \o <<"admin", "active">>)
       ELSE [dep EXCEPT !.steps = @ \o <<"admin", "active">>]

get_admin_user(token) ==
    LET dep == get_current_active_user(token)
    IN IF ~dep.ok THEN dep
       ELSE IF ~IsAdmin(token, dep.current_user)
       THEN Denied(403, "Admin access required", "", Append(dep.steps, "admin"))
       ELSE [dep EXCEPT !.steps = Append(@, "admin")]

\* the answer of an endpoint behind the dependency dep
Answer(op, token, dep, body) ==
    IF ~dep.ok
    THEN [op |-> op, status |-> dep.status, detail |-> dep.detail,
          headers |-> dep.headers, steps |-> dep.steps, token |-> token]
    ELSE [op |-> op, status |-> 200, detail |-> "OK", steps |-> dep.steps,
          token |-> token] @@ body

\* GET /auth/me: get_current_user_info
Me(token) ==
    /\ LET dep == get_current_user(token)
       IN last' = Answer("me", token, dep, IF dep.ok THEN dep.current_user ELSE <<>>)
    /\ UNCHANGED <<db_session, state, is_setup, orphaned, now, jwt_secret_key, issued, store, tokens, pc, req, cpc, creq, spc, pending,
                   all_perms, new_perms, seedRuns, interrupted, created>>

\* RoleResponse for every role: id, name, permissions=[perm.name ...]
RoleResponses ==
    {[id |-> r.id, name |-> r.name,
      permissions |-> {p.name : p \in {q \in permissions : <<r.id, q.id>> \in role_permissions}}]
       : r \in roles}

\* GET /auth/roles: get_all_roles
ListRoles(token) ==
    /\ LET dep == get_admin_user(token)
       IN last' = Answer("roles", token, dep, [role_list |-> RoleResponses])
    /\ UNCHANGED <<db_session, state, is_setup, orphaned, now, jwt_secret_key, issued, store, tokens, pc, req, cpc, creq, spc, pending,
                   all_perms, new_perms, seedRuns, interrupted, created>>

\* tokens nobody issued: signed with another key, not a token at all
ForgedToken ==
    [segments |-> 3, signed_with |-> "attacker-key",
     payload |-> [sub |-> "alice", role |-> "admin", exp |-> timegm(Minutes(120))]]
MalformedToken == [segments |-> 1]

----------------------------------------------------------------------------
(* main.py lifespan and scripts/create_admin.py *)

\* lifespan: the seeding of an application start, from its first select to its
\* last commit
Startup ==
    /\ LET g == seed_default_roles_and_permissions(Graph)
       IN /\ roles' = g.roles
          /\ permissions' = g.permissions
          /\ role_permissions' = g.role_permissions
          /\ last' = [op |-> "startup", ok |-> g.ok]
    /\ UNCHANGED <<db_session, state, is_setup, orphaned, now, jwt_secret_key, issued, users, user_roles, tokens, pc, req, cpc, creq, spc, pending,
                   all_perms, new_perms, seedRuns, interrupted, created>>

\* the account the script is asked to create
AdminData == [username : {"alice"}, email : {"a@x.com"}, password : {PwShort}]

\* existing_user = get_by_username(username); return False
CaCheckUsername(admin_data) ==
    /\ cpc = "idle"
    /\ IF Found(get_by_username(admin_data.username))
       THEN /\ last' = [op |-> "create_admin", result |-> "False"]
            /\ UNCHANGED <<cpc, creq>>
       ELSE /\ cpc' = "ca_email"
            /\ creq' = admin_data @@ [id |-> 0]
            /\ UNCHANGED last
    /\ UNCHANGED <<db_session, state, is_setup, orphaned, now, jwt_secret_key, issued, store, tokens, pc, req, spc, pending, all_perms, new_perms,
                   seedRuns, interrupted, created>>

\* existing_email = get_by_email(email); return False
CaCheckEmail ==
    /\ cpc = "ca_email"
    /\ IF Found(get_by_email(creq.email))
       THEN /\ last' = [op |-> "create_admin", result |-> "False"]
            /\ cpc' = "idle"
            /\ creq' = NoUser
       ELSE /\ cpc' = "ca_seed"
            /\ UNCHANGED <<creq, last>>
    /\ UNCHANGED <<db_session, state, is_setup, orphaned, now, jwt_secret_key, issued, store, tokens, pc, req, spc, pending, all_perms, new_perms,
                   seedRuns, interrupted, created>>

\* admin_role = get_by_name("admin") or role_repo.create(Role("admin"));
\* seed_default_roles_and_permissions(session)
CaSeed ==
    /\ cpc = "ca_seed"
    /\ LET rcommit == IF Found(AdminRole) THEN [ok |-> TRUE, table |-> roles]
                      ELSE CommitNamed(roles, <<"admin">>)
           g == seed_default_roles_and_permissions([Graph EXCEPT !.roles = rcommit.table])
       IN /\ roles' = g.roles
          /\ permissions' = g.permissions
          /\ role_permissions' = g.role_permissions
          /\ IF rcommit.ok /\ g.ok
             THEN /\ cpc' = "ca_user"
                  /\ UNCHANGED <<creq, last>>
             ELSE /\ cpc' = "idle"
                  /\ creq' = NoUser
                  /\ last' = [op |-> "create_admin", result |-> "Error"]
    /\ UNCHANGED <<db_session, state, is_setup, orphaned, now, jwt_secret_key, issued, users, user_roles, tokens, pc, req, spc, pending, all_perms,
                   new_perms, seedRuns, interrupted, created>>

\* admin_user = User(...); admin_user.roles.append(admin_role); user_repo.create
CaCreateUser ==
    /\ cpc = "ca_user"
    /\ LET row == NewUserRow(creq.username, creq.email, creq.password)
           c == CommitUser(users, row)
       IN /\ users' = c.table
          /\ IF c.ok
             THEN /\ user_roles' = user_roles \cup {<<row.id, AdminRole.id>>}
                  /\ created' = Append(created, [password |-> creq.password, role_found |-> TRUE])
                  /\ last' = [op |-> "create_admin", result |-> "True"]
             ELSE /\ last' = [op |-> "create_admin", result |-> "Error"]
                  /\ UNCHANGED <<user_roles, created>>
    /\ cpc' = "idle"
    /\ creq' = NoUser
    /\ UNCHANGED <<db_session, state, is_setup, orphaned, now, jwt_secret_key, issued, roles, permissions, role_permissions, tokens, pc, req, spc, pending,
                   all_perms, new_perms, seedRuns, interrupted>>

\* Concurrent registrations, an application start and the create_admin script.
Next ==
    \/ \E w \in Workers, user_data \in RaceData : RegCheckUsername(w, user_data, "user")
    \/ \E w \in Workers : RegCheckEmail(w)
    \/ \E w \in Workers : RegCreate(w)
    \/ \E w \in Workers : RegAssignRole(w)
    \/ Startup
    \/ \E admin_data \in AdminData : CaCheckUsername(admin_data)
    \/ CaCheckEmail
    \/ CaSeed
    \/ CaCreateUser

Spec == Init /\ [][Next]_vars

\* Requests served one after the other: registration, login, current-user query.
NextAuth ==
    \/ \E user_data \in UserData : RegisterUser(user_data, "user")
    \/ \E username \in Identifiers, password \in LoginPasswords : Login(username, password)
    \/ \E token \in tokens \cup {ForgedToken, MalformedToken} : Me(token)
    \/ Startup

SpecAuth == Init /\ [][NextAuth]_vars

----------------------------------------------------------------------------
(* The token functions called on their own, the clock and the settings *)

MaxNow == 5
MaxWaits == 1

\* create_access_token(data, expires_delta) called directly
IssueToken(data, expires_delta) ==
    /\ Issue(create_access_token(data, expires_delta), expires_delta)
    /\ last' = [op |-> "issue", token |-> create_access_token(data, expires_delta)]
    /\ UNCHANGED <<db_session, state, is_setup, orphaned, now, jwt_secret_key, store, pc, req, cpc, creq, spc, pending, all_perms,
                   new_perms, seedRuns, interrupted, created>>

\* decode_access_token(token) called directly
DecodeToken(token) ==
    /\ last' = [op |-> "decode", token |-> token, token_data |-> decode_access_token(token)]
    /\ UNCHANGED <<db_session, state, is_setup, orphaned, now, jwt_secret_key, issued, store, tokens, pc, req, cpc, creq, spc, pending,
                   all_perms, new_perms, seedRuns, interrupted, created>>

\* datetime.utcnow() moves on by one tick
Tick ==
    /\ now + 1 <= MaxNow
    /\ now' = now + 1
    /\ last' = [op |-> "tick"]
    /\ UNCHANGED <<db_session, state, is_setup, orphaned, jwt_secret_key, issued, store, tokens, pc, req, cpc, creq, spc, pending,
                   all_perms, new_perms, seedRuns, interrupted, created>>

\* datetime.utcnow() moves on by d ticks, a time of the order of the default lifetime
Wait(d) ==
    /\ now + d <= MaxWaits * d
    /\ now' = now + d
    /\ last' = [op |-> "wait"]
    /\ UNCHANGED <<db_session, state, is_setup, orphaned, jwt_secret_key, issued, store, tokens, pc, req, cpc, creq, spc, pending,
                   all_perms, new_perms, seedRuns, interrupted, created>>

\* the application is restarted with another JWT_SECRET_KEY
RotateSecret(key) ==
    /\ key # jwt_secret_key
    /\ jwt_secret_key' = key
    /\ last' = [op |-> "rotate"]
    /\ UNCHANGED <<db_session, state, is_setup, orphaned, now, issued, store, tokens, pc, req, cpc, creq, spc, pending,
                   all_perms, new_perms, seedRuns, interrupted, created>>

TokenPayloads == {[sub |-> "alice", role |-> "user"]}
ExpiresDeltas == {<<>>, <<0>>, <<2>>}
\* a correctly signed token without the "sub" claim
NoSubToken ==
    jwt_encode([role |-> "user", exp |-> Minutes(120)], "your-secret-key-change-in-production")
StrayTokens == {ForgedToken, MalformedToken, NoSubToken}

NextToken ==
    \/ \E data \in TokenPayloads, expires_delta \in ExpiresDeltas :
          IssueToken(data, expires_delta)
    \/ \E token \in tokens \cup StrayTokens : DecodeToken(token)
    \/ Tick
    \/ \E key \in Secrets : RotateSecret(key)

SpecToken == Init /\ [][NextToken]_vars

----------------------------------------------------------------------------
(* Changes made to the rows directly: users.is_active, user_roles, users *)

\* users.is_active is set
SetActive(username, is_active) ==
    /\ LET user == get_by_username(username)
       IN /\ Found(user)
          /\ user.is_active # is_active
          /\ users' = (users \ {user}) \cup {[user EXCEPT !.is_active = is_active]}
    /\ last' = [op |-> "set_active"]
    /\ UNCHANGED <<db_session, state, is_setup, orphaned, now, jwt_secret_key, issued, roles, permissions, user_roles,
                   role_permissions, tokens, pc, req, cpc, creq, spc, pending, all_perms,
                   new_perms, seedRuns, interrupted, created>>

\* a user_roles row is inserted
GrantRole(username, role_name) ==
    /\ LET user == get_by_username(username)
           role == role_get_by_name(roles, role_name)
       IN /\ Found(user) /\ Found(role)
          /\ PairsUniqueOk(user_roles, {<<user.id, role.id>>})
          /\ user_roles' = user_roles \cup {<<user.id, role.id>>}
    /\ last' = [op |-> "grant_role"]
    /\ UNCHANGED <<db_session, state, is_setup, orphaned, now, jwt_secret_key, issued, users, roles, permissions,
                   role_permissions, tokens, pc, req, cpc, creq, spc, pending, all_perms,
                   new_perms, seedRuns, interrupted, created>>

\* a user_roles row is deleted
RevokeRole(username, role_name) ==
    /\ LET user == get_by_username(username)
           role == role_get_by_name(roles, role_name)
       IN /\ Found(user) /\ Found(role)
          /\ <<user.id, role.id>> \in user_roles
          /\ user_roles' = user_roles \ {<<user.id, role.id>>}
    /\ last' = [op |-> "revoke_role"]
    /\ UNCHANGED <<db_session, state, is_setup, orphaned, now, jwt_secret_key, issued, users, roles, permissions,
                   role_permissions, tokens, pc, req, cpc, creq, spc, pending, all_perms,
                   new_perms, seedRuns, interrupted, created>>

\* settings.database_type; the engine is created without "PRAGMA foreign_keys=ON", so
\* on sqlite, the default, the foreign keys of the schema are not enforced
DatabaseTypes == {"sqlite", "postgresql", "mysql"}
ForeignKeysEnforced(database_type) == database_type # "sqlite"

\* the association rows that go with a deleted row: ON DELETE CASCADE, where the
\* foreign keys are enforced
Dependents(table, column, id, database_type) ==
    IF ForeignKeysEnforced(database_type)
    THEN {row \in table : row[column] = id}
    ELSE {}

\* a users row is deleted
DeleteUser(username, database_type) ==
    /\ LET user == get_by_username(username)
       IN /\ Found(user)
          /\ users' = users \ {user}
          /\ user_roles' = user_roles \ Dependents(user_roles, 1, user.id, database_type)
          /\ created' = SubSeq(created, 1, MaxOf({u.id : u \in users \ {user}}))
          /\ orphaned' = orphaned \cup {t \in tokens : Get(t.payload, "sub") = user.username}
    /\ last' = [op |-> "delete_user"]
    /\ UNCHANGED <<db_session, state, is_setup, now, jwt_secret_key, issued, roles, permissions, role_permissions,
                   tokens, pc, req, cpc, creq, spc, pending, all_perms, new_perms,
                   seedRuns, interrupted>>

\* a roles row is deleted
DeleteRole(role_name, database_type) ==
    /\ LET role == role_get_by_name(roles, role_name)
       IN /\ Found(role)
          /\ roles' = roles \ {role}
          /\ user_roles' = user_roles \ Dependents(user_roles, 2, role.id, database_type)
          /\ role_permissions' =
                role_permissions \ Dependents(role_permissions, 1, role.id, database_type)
    /\ last' = [op |-> "delete_role"]
    /\ UNCHANGED <<db_session, state, is_setup, orphaned, now, jwt_secret_key, issued, users,
                   permissions, tokens, pc, req, cpc, creq, spc, pending, all_perms,
                   new_perms, seedRuns, interrupted, created>>

\* a permissions row is deleted
DeletePermission(name, database_type) ==
    /\ LET perm == OneOrNone({q \in permissions : q.name = name})
       IN /\ Found(perm)
          /\ permissions' = permissions \ {perm}
          /\ role_permissions' =
                role_permissions \ Dependents(role_permissions, 2, perm.id, database_type)
    /\ last' = [op |-> "delete_permission"]
    /\ UNCHANGED <<db_session, state, is_setup, orphaned, now, jwt_secret_key, issued, users,
                   roles, user_roles, tokens, pc, req, cpc, creq, spc, pending, all_perms,
                   new_perms, seedRuns, interrupted, created>>

\* a role_permissions row is inserted
GrantPermission(role_name, name) ==
    /\ LET role == role_get_by_name(roles, role_name)
           perm == OneOrNone({q \in permissions : q.name = name})
       IN /\ Found(role) /\ Found(perm)
          /\ PairsUniqueOk(role_permissions, {<<role.id, perm.id>>})
          /\ role_permissions' = role_permissions \cup {<<role.id, perm.id>>}
    /\ last' = [op |-> "grant_permission"]
    /\ UNCHANGED <<db_session, state, is_setup, orphaned, now, jwt_secret_key, issued, users,
                   roles, permissions, user_roles, tokens, pc, req, cpc, creq, spc, pending,
                   all_perms, new_perms, seedRuns, interrupted, created>>

----------------------------------------------------------------------------
(* AuthService.has_permission, AuthService.has_role *)

\* user.roles and role.permissions as the relationships load them
RolesOf(uid) == {r \in roles : <<uid, r.id>> \in user_roles}
PermissionsOf(rid) == {q \in permissions : <<rid, q.id>> \in role_permissions}

\* (mutation: only the first role of the user is searched)
has_permission_FirstRole(user, permission) ==
    \E role \in RolesOf(user.id) :
        /\ \A other \in RolesOf(user.id) : role.id <= other.id
        /\ \E perm \in PermissionsOf(role.id) : perm.name = permission

has_permission(user, permission) ==
    \E role \in RolesOf(user.id) :
        \E perm \in PermissionsOf(role.id) : perm.name = permission

has_role(user, role_name) ==
    \E role \in RolesOf(user.id) : role.name = role_name

CheckPermission(username, permission) ==
    /\ Found(get_by_username(username))
    /\ last' = [op |-> "has_permission", permission |-> permission,
                result |-> has_permission(get_by_username(username), permission)]
    /\ UNCHANGED <<db_session, state, is_setup, orphaned, now, jwt_secret_key, issued, store,
                   tokens, pc, req, cpc, creq, spc, pending, all_perms, new_perms, seedRuns,
                   interrupted, created>>

CheckRole(username, role_name) ==
    /\ Found(get_by_username(username))
    /\ last' = [op |-> "has_role", role_name |-> role_name,
                result |-> has_role(get_by_username(username), role_name)]
    /\ UNCHANGED <<db_session, state, is_setup, orphaned, now, jwt_secret_key, issued, store,
                   tokens, pc, req, cpc, creq, spc, pending, all_perms, new_perms, seedRuns,
                   interrupted, created>>

AskedPermissions == {"users.read", "reports.read", "roles.write"}
AskedRoles == {"admin", "user", "manager"}

\* the one account of the gate and of the graph
GateData == [username : {"alice"}, email : {"a@x.com"}, password : {PwShort}]

\* One account and the role/permission graph around it.
NextGraph ==
    \/ Startup
    \/ \E user_data \in GateData : RegisterUser(user_data, "user")
    \/ \E role_name \in SeedRoleNames : GrantRole("alice", role_name)
    \/ \E role_name \in SeedRoleNames : RevokeRole("alice", role_name)
    \/ \E name \in ExtraPermNames : AdminCreatePermission(name)
    \/ \E name \in {"users.read", "reports.read"} : GrantPermission("user", name)
    \/ \E database_type \in DatabaseTypes : DeleteUser("alice", database_type)
    \/ \E database_type \in DatabaseTypes : DeleteRole("user", database_type)
    \/ \E database_type \in DatabaseTypes : DeletePermission("users.read", database_type)
    \/ \E permission \in AskedPermissions : CheckPermission("alice", permission)
    \/ \E role_name \in AskedRoles : CheckRole("alice", role_name)

SpecGraph == Init /\ [][NextGraph]_vars

\* One account, its logins and gated requests, and what is done to its row, on a
\* database that enforces its foreign keys.

NextGate ==
    \/ Startup
    \/ \E user_data \in GateData : RegisterUser(user_data, "user")
    \/ \E password \in {PwShort, PwOther} : Login("alice", password)
    \/ \E token \in tokens \cup {ForgedToken} : Me(token)
    \/ \E token \in tokens \cup {ForgedToken} : ListRoles(token)
    \/ \E is_active \in BOOLEAN : SetActive("alice", is_active)
    \/ \E role_name \in SeedRoleNames : GrantRole("alice", role_name)
    \/ \E role_name \in SeedRoleNames : RevokeRole("alice", role_name)
    \/ DeleteUser("alice", "postgresql")
    \/ Wait(Minutes(jwt_access_token_expire_minutes) + 1)
    \/ \E key \in Secrets : RotateSecret(key)

SpecGate == Init /\ [][NextGate]_vars

----------------------------------------------------------------------------
(* db/connection.py: get_db, the session of one request *)

SessionRest == <<roles, permissions, user_roles, role_permissions, tokens, pc, req, last,
                 cpc, creq, spc, pending, all_perms, new_perms, seedRuns, interrupted,
                 now, jwt_secret_key, issued, orphaned, state, is_setup>>

\* async with AsyncSessionLocal() as session: yield session
GetDb(w) ==
    /\ db_session[w].state \in {"none", "closed"}
    /\ db_session' = [db_session EXCEPT ![w] =
                         [state |-> "open", pending |-> {}, outcome |-> "none"]]
    /\ UNCHANGED <<users, created, SessionRest>>

\* the handler: session.add(user), of UserRepository.create
SessionAdd(w, user_data) ==
    /\ db_session[w].state = "open"
    /\ db_session[w].pending = {}
    /\ db_session' = [db_session EXCEPT ![w].pending = {user_data}]
    /\ UNCHANGED <<users, created, SessionRest>>

\* the handler: session.commit(), of UserRepository.create; a commit that raises
\* ends the handler with the object still pending
SessionCommit(w) ==
    /\ db_session[w].state = "open"
    /\ \E user_data \in db_session[w].pending :
          LET row == NewUserRow(user_data.username, user_data.email, user_data.password)
              c == CommitUser(users, row)
          IN /\ users' = c.table
             /\ IF c.ok
                THEN /\ created' = Append(created, [password |-> user_data.password,
                                                  role_found |-> FALSE])
                     /\ db_session' = [db_session EXCEPT ![w].pending = {}]
                ELSE /\ UNCHANGED created
                     /\ db_session' = [db_session EXCEPT ![w].state = "raised",
                                                         ![w].outcome = "raised"]
    /\ UNCHANGED SessionRest

\* the handler returns its response
HandlerReturns(w) ==
    /\ db_session[w].state = "open"
    /\ db_session' = [db_session EXCEPT ![w].state = "returned", ![w].outcome = "returned"]
    /\ UNCHANGED <<users, created, SessionRest>>

\* the handler raises (an HTTPException, an error of the database, a cancellation)
HandlerRaises(w) ==
    /\ db_session[w].state = "open"
    /\ db_session' = [db_session EXCEPT ![w].state = "raised", ![w].outcome = "raised"]
    /\ UNCHANGED <<users, created, SessionRest>>

\* (mutation: no try/finally, the session is closed after a normal return only)
GetDbClose_OnReturnOnly(w) ==
    /\ db_session[w].state = "returned"
    /\ db_session' = [db_session EXCEPT ![w].state = "closed", ![w].pending = {}]
    /\ UNCHANGED <<users, created, SessionRest>>

\* finally: await session.close(): what was not committed is rolled back and the
\* connection goes back to the pool
GetDbClose(w) ==
    /\ db_session[w].state \in {"returned", "raised"}
    /\ db_session' = [db_session EXCEPT ![w].state = "closed", ![w].pending = {}]
    /\ UNCHANGED <<users, created, SessionRest>>

NextSession ==
    \/ \E w \in Workers : GetDb(w)
    \/ \E w \in Workers, user_data \in UserData : SessionAdd(w, user_data)
    \/ \E w \in Workers : SessionCommit(w)
    \/ \E w \in Workers : HandlerReturns(w)
    \/ \E w \in Workers : HandlerRaises(w)
    \/ \E w \in Workers : GetDbClose(w)

\* A handler comes to its end, and the generator of get_db is resumed after it.
SpecSession ==
    /\ Init
    /\ [][NextSession]_vars
    /\ \A w \in Workers : WF_vars(HandlerReturns(w) \/ HandlerRaises(w))
    /\ \A w \in Workers : WF_vars(GetDbClose(w))

----------------------------------------------------------------------------
(* ai/flows/base_flow.py: BaseFlow.run *)

FlowInputs == {[topic |-> "sales"], [topic |-> "stock"]}
\* what the subclass's setup and _execute_flow do in a run
FlowOutcomes == {"returns", "raises", "setup_raises"}

\* the default _execute_flow
execute_flow(inputs) == [message |-> "Flow executed successfully", inputs |-> inputs]

\* BaseFlow.run(inputs), from its first line to its return or its re-raise
Run(inputs, outcome) ==
    /\ outcome = "setup_raises" => ~is_setup
    /\ LET running == [state EXCEPT !.status = "running", !.started_at = <<now>>,
                                    !.inputs = inputs]
       IN IF outcome = "returns"
          THEN /\ state' = [running EXCEPT !.status = "completed",
                                           !.completed_at = <<now>>,
                                           !.outputs = execute_flow(inputs)]
               /\ is_setup' = TRUE
               /\ last' = [op |-> "run", raised |-> FALSE]
          ELSE /\ state' = [running EXCEPT !.status = "failed",
                                           !.error = "flow error",
                                           !.completed_at = <<now>>]
               /\ is_setup' = (outcome = "raises" \/ is_setup)
               /\ last' = [op |-> "run", raised |-> TRUE]
    /\ UNCHANGED <<db_session, orphaned, now, jwt_secret_key, issued, store, tokens, pc, req,
                   cpc, creq, spc, pending, all_perms, new_perms, seedRuns, interrupted,
                   created>>

NextFlow ==
    \/ \E inputs \in FlowInputs, outcome \in FlowOutcomes : Run(inputs, outcome)
    \/ Tick

SpecFlow == Init /\ [][NextFlow]_vars

----------------------------------------------------------------------------
(* Properties of seeding *)

Ids(rows) == {row.id : row \in rows}
SeedPermIds == Ids({p \in permissions : p.name \in SeedPermNames})
OnlySeedPermissions == \A p \in permissions : p.name \in SeedPermNames
OneRowPerName(table, names) ==
    \A n \in names : Cardinality({row \in table : row.name = n}) = 1
NoSeedingFailed == \A s \in Seeders : spc[s] # "failed"

\* C1: from an empty store, once a seeding run has returned, and however many runs
\* follow it in sequence, there is exactly one role row per seed role and one permission
\* row per seed permission, the admin role holds each seed permission once (no run
\* raises on a duplicate row or grant), and with only seeding at work the store holds
\* exactly the 2 + 6 seed rows and 6 grants and no later run adds a row or a grant.
C1_Counts ==
    /\ NoSeedingFailed
    /\ seedRuns >= 1 =>
         /\ OneRowPerName(roles, SeedRoleNames)
         /\ OneRowPerName(permissions, SeedPermNames)
         /\ SeedPermIds \subseteq AdminPermIds
         /\ OnlySeedPermissions =>
              /\ Cardinality(roles) = Len(default_roles)
              /\ Cardinality(permissions) = Len(default_permissions)
              /\ Cardinality(role_permissions) = Len(default_permissions)
C1_LaterRunsAddNothing ==
    (seedRuns >= 1 /\ OnlySeedPermissions /\ OnlySeedPermissions')
        => UNCHANGED <<roles, permissions, role_permissions>>
C1_SeedIdempotent == [](C1_Counts) /\ [][C1_LaterRunsAddNothing]_vars

C1_Witness ==
    /\ seedRuns >= 2
    /\ interrupted = {}
    /\ OnlySeedPermissions
    /\ Cardinality(permissions) = 6 /\ Cardinality(roles) = 2
    /\ Cardinality(role_permissions) = 6

\* C2 (as claimed): after a seeding run has returned, the admin role's permission set
\* is exactly the set of the six seeded permissions.
C2_AdminHasExactlySeedPerms ==
    \A s \in Seeders : spc[s] = "done" => AdminPermIds = SeedPermIds

\* C2 (amended): after a seeding run has returned, the admin role holds every
\* permission the run found in the table (the six seeded ones and any other), and the
\* grant step appends exactly the permissions of the table the role did not hold.
C2_Holds ==
    \A s \in Seeders : spc[s] = "done" =>
        /\ Ids(all_perms[s]) \subseteq AdminPermIds
        /\ SeedPermIds \subseteq Ids(all_perms[s])
        /\ AdminPermIds \subseteq Ids(permissions)
C2_GrantStep ==
    \A s \in Seeders : (spc[s] = "grant_commit" /\ spc'[s] = "done") =>
        /\ role_permissions \subseteq role_permissions'
        /\ role_permissions' \ role_permissions =
             {<<AdminRole.id, p.id>> : p \in {q \in all_perms[s] : q.id \notin AdminPermIds}}
C2_AdminHasAllPerms == [](C2_Holds) /\ [][C2_GrantStep]_vars

C2_Witness ==
    \E s \in Seeders :
        /\ spc[s] = "done"
        /\ seedRuns >= 2
        /\ \E p \in all_perms[s] : p.name \notin SeedPermNames /\ p.id \in AdminPermIds

\* C3: a seeding run cut off after the permission commit, after the role commit or
\* before the grant commit leaves a store on which a later full run raises no
\* duplicate error and ends in the state an uninterrupted run ends in.
C3_RerunAfterInterrupt ==
    /\ NoSeedingFailed
    /\ \A s \in Seeders : spc[s] = "done" =>
         /\ OneRowPerName(roles, SeedRoleNames)
         /\ OneRowPerName(permissions, SeedPermNames)
         /\ Ids(all_perms[s]) \subseteq AdminPermIds
         /\ OnlySeedPermissions => Graph = seed_default_roles_and_permissions(EmptyGraph)

C3_Witness ==
    /\ interrupted = CommitPoints
    /\ OnlySeedPermissions
    /\ \E s \in Seeders : spc[s] = "done"
    /\ Graph = seed_default_roles_and_permissions(EmptyGraph)
    /\ Cardinality(role_permissions) = 6

----------------------------------------------------------------------------
(* Properties of registration and login *)

\* C4: whatever the interleaving of registrations and of the create_admin script, no
\* two rows of users share a username, an email or an id.
C4_UniqueUsers ==
    \A u1, u2 \in users :
        (u1.username = u2.username \/ u1.email = u2.email \/ u1.id = u2.id) => u1 = u2

C4_Witness ==
    /\ Cardinality(users) = 2
    /\ last.op = "register" /\ last.status = 500
    /\ \E u \in users : "admin" \in SeqToSet(RoleNamesOf(u.id))

Taken(username) == \E u \in users : u.username = username
EmailTaken(email) == \E u \in users : u.email = email

\* C5: a registration served alone answers 400 "Username already registered" when the
\* username is taken (the email taken or not), and 400 "Email already registered" when
\* the username is free and the email is taken.
C5_Step ==
    \A user_data \in UserData :
        RegisterUser(user_data, "user") =>
            /\ Taken(user_data.username) =>
                 /\ last'.status = 400 /\ last'.detail = "Username already registered"
            /\ (~Taken(user_data.username) /\ EmailTaken(user_data.email)) =>
                 /\ last'.status = 400 /\ last'.detail = "Email already registered"
C5_DuplicateErrors == [][C5_Step]_vars

C5_Witness ==
    /\ last.op = "register" /\ last.status = 400
    /\ last.detail = "Email already registered"
    /\ Cardinality(users) = 1

\* C6 (as claimed): a registration that loses the race at the unique index is answered
\* with the 400 duplicate error, never with a server error.
C6_LoserGetsDuplicateError ==
    last.op = "register" => last.status \in {201, 400}

\* C7: once the roles are seeded, a successful registration leaves the new user with
\* the role list <<"user">>, and the current-user query made with the token of a login
\* of that user answers roles <<"user">>.
C7_DefaultRole ==
    /\ (last.op = "register" /\ last.status = 201 /\ created[last.id].role_found)
          => RoleNamesOf(last.id) = <<"user">>
    /\ (last.op = "me" /\ last.status = 200 /\ created[last.id].role_found)
          => last.roles = <<"user">>

C7_Witness ==
    /\ last.op = "me" /\ last.status = 200
    /\ created[last.id].role_found
    /\ last.roles = <<"user">>
    /\ \E t \in tokens : t.payload.sub = last.username

\* C8: when no role has the default name, a registration whose username and email are
\* free answers 201, adds the user without any user_roles row and adds no role.
C8_Step ==
    \A user_data \in UserData :
        (/\ RegisterUser(user_data, "user")
         /\ ~Taken(user_data.username) /\ ~EmailTaken(user_data.email)
         /\ ~Found(role_get_by_name(roles, "user")))
        => /\ last'.status = 201
           /\ \E u \in users' : u.id = last'.id /\ u.username = user_data.username
           /\ {ur \in user_roles' : ur[1] = last'.id} = {}
           /\ roles' = roles
C8_MissingRole == [][C8_Step]_vars

C8_Witness ==
    /\ last.op = "register" /\ last.status = 201
    /\ roles = {}
    /\ \E u \in users : u.id = last.id /\ RoleIdsOf(u.id) = {}

\* C9 (as claimed): every account authenticates with its username and with its email
\* and the password it was created with, in every later state of the store.
C9_OwnCredentialsAuthenticate ==
    \A u \in users :
        /\ authenticate_user(u.username, created[u.id].password) = u
        /\ authenticate_user(u.email, created[u.id].password) = u

\* C10: a login with an unknown identifier and a login with a known identifier and a
\* wrong password get the same answer, 401 "Incorrect username or password" with the
\* Bearer challenge, and leave the store and the tokens as they were.
C10_Step ==
    \A username \in Identifiers, password \in LoginPasswords :
        (/\ Login(username, password)
         /\ \/ ~Found(LookupUser(username))
            \/ ~verify_password(password, LookupUser(username).hashed_password))
        => /\ authenticate_user(username, password) = NoUser
           /\ last'.status = 401
           /\ last'.detail = "Incorrect username or password"
           /\ last'.headers = "WWW-Authenticate: Bearer"
           /\ DOMAIN last' = {"op", "status", "detail", "headers", "found", "login_data"}
           /\ UNCHANGED <<store, tokens>>
C10_UniformFailure == [][C10_Step]_vars

C10_Witness ==
    /\ last.op = "login" /\ last.status = 401
    /\ last.found
    /\ users # {}

----------------------------------------------------------------------------
(* Properties of login, of the tokens and of the access-control gate *)

GatePasswords == {PwShort, PwOther}

\* C11: a login to an account whose is_active flag is false issues no token; with the
\* right password it answers 400 "User account is inactive", with a wrong password the
\* generic 401 "Incorrect username or password".
C11_Step ==
    \A password \in GatePasswords :
        LET user == LookupUser("alice") IN
        (Login("alice", password) /\ Found(user) /\ ~user.is_active)
        => /\ UNCHANGED <<tokens, issued>>
           /\ "access_token" \notin DOMAIN last'
           /\ verify_password(password, user.hashed_password)
                => last'.status = 400 /\ last'.detail = "User account is inactive"
           /\ ~verify_password(password, user.hashed_password)
                => last'.status = 401 /\ last'.detail = "Incorrect username or password"
C11_InactiveLogin == [][C11_Step]_vars

C11_Witness ==
    /\ last.op = "login" /\ last.status = 400
    /\ last.login_data.password = PwShort
    /\ \E u \in users : u.username = "alice" /\ ~u.is_active
    /\ \E t \in tokens : t.payload.sub = "alice"

\* C12: the token of a successful login has sub = the username of the authenticated
\* user and role = the first name of that user's role list at the time of the login,
\* or "user" when the list is empty.
C12_Step ==
    \A password \in GatePasswords :
        LET user == authenticate_user("alice", password)
            rolenames == RoleNamesOf(user.id)
        IN (Login("alice", password) /\ last'.status = 200)
           => /\ Found(user)
              /\ last'.access_token \in tokens'
              /\ last'.access_token.payload.sub = user.username
              /\ rolenames # <<>> => last'.access_token.payload.role = Head(rolenames)
              /\ rolenames = <<>> => last'.access_token.payload.role = "user"
C12_TokenClaims == [][C12_Step]_vars

C12_Witness ==
    /\ last.op = "login" /\ last.status = 200
    /\ last.access_token.payload.role = "admin"
    /\ RoleNamesOf(get_by_username("alice").id) = <<"admin", "user">>
    /\ \E t \in tokens : t.payload.role = "user"

\* what makes a token unacceptable at the present time and under the present secret
Malformed(t) == t.segments # 3
BadSignature(t) == ~Malformed(t) /\ t.signed_with # jwt_secret_key
Expired(t) == ~Malformed(t) /\ t.payload.exp < timegm(now)
NoSubject(t) == ~Malformed(t) /\ "sub" \notin DOMAIN t.payload

\* C13: decode_access_token raises for no token; it returns no claims for a malformed
\* token, a token with a bad signature, an expired token and a token without "sub",
\* and the claims of the payload for every other token.
C13_DecodeTotal ==
    /\ \A t \in tokens \cup StrayTokens :
         LET token_data == decode_access_token(t) IN
         /\ "raised" \notin DOMAIN token_data
         /\ (Malformed(t) \/ BadSignature(t) \/ Expired(t) \/ NoSubject(t))
               <=> token_data = NoClaims
         /\ token_data # NoClaims =>
               /\ token_data.username = t.payload.sub
               /\ token_data.role = t.payload.role
    /\ last.op = "decode" => "raised" \notin DOMAIN last.token_data

C13_Witness ==
    /\ last.op = "decode"
    /\ last.token_data = NoClaims
    /\ last.token \in tokens
    /\ Expired(last.token) /\ ~BadSignature(last.token) /\ ~NoSubject(last.token)
    /\ \E t \in tokens : decode_access_token(t) # NoClaims

\* C14 (as claimed): a token created with an explicit expires_delta of zero has its
\* exp at its time of issue and decodes to no claims at that time and ever after.
C14_ZeroTtlNeverDecodes ==
    \A i \in issued :
        i.expires_delta = <<0>> =>
            /\ i.token.payload.exp = timegm(i.at)
            /\ decode_access_token(i.token) = NoClaims

\* the issues with a positive expires_delta whose token is signed with the present secret
PositiveTtl == {i \in issued : /\ i.expires_delta # <<>>
                               /\ i.expires_delta[1] > 0
                               /\ i.token.signed_with = jwt_secret_key}
Decodes(t) == decode_access_token(t) # NoClaims

\* C15 (as claimed): with the secret unchanged, a token issued with a positive ttl
\* decodes at every time before issuedAt + ttl and fails at every time after it.
C15_ExpiresAtTtl ==
    \A i \in PositiveTtl :
        /\ now < i.at + i.expires_delta[1] => Decodes(i.token)
        /\ now > i.at + i.expires_delta[1] => ~Decodes(i.token)

\* C15 (amended): the exp of a token issued with a positive ttl is the whole second of
\* issuedAt + ttl; with the secret unchanged the token decodes at every time up to the
\* end of that second and fails from the next second on, and once it has failed for
\* expiry no later time makes it decode again.
C15_Valid ==
    \A i \in PositiveTtl :
        /\ i.token.payload.exp = timegm(i.at + i.expires_delta[1])
        /\ Decodes(i.token) <=> timegm(now) <= timegm(i.at + i.expires_delta[1])
C15_Monotone ==
    \A i \in PositiveTtl :
        (Expired(i.token) /\ jwt_secret_key' = jwt_secret_key)
            => (Expired(i.token))' /\ (~Decodes(i.token))'
C15_ExpiresWithTheSecond == [](C15_Valid) /\ [][C15_Monotone]_vars

C15_Witness ==
    /\ last.op = "decode"
    /\ \E i \in PositiveTtl :
         /\ last.token = i.token
         /\ now > i.at + i.expires_delta[1]
         /\ last.token_data # NoClaims
    /\ \E i \in PositiveTtl : Expired(i.token)

\* C16: a step that changes neither the clock nor the secret (a login, a registration,
\* a role change, a deactivation, a deletion) leaves the decode result of every issued
\* token as it was; a token that stops decoding has expired or the secret has changed;
\* and a change of the secret makes every token signed with the old secret fail.
C16_Step ==
    \A t \in tokens :
        /\ (now' = now /\ jwt_secret_key' = jwt_secret_key)
              => (decode_access_token(t))' = decode_access_token(t)
        /\ (Decodes(t) /\ (~Decodes(t))')
              => (Expired(t))' \/ jwt_secret_key' # jwt_secret_key
        /\ (jwt_secret_key' # jwt_secret_key /\ t.signed_with = jwt_secret_key)
              => (~Decodes(t))'
C16_OnlyExpiryOrRotation == [][C16_Step]_vars

C16_Witness ==
    /\ last.op = "rotate"
    /\ \E t \in tokens : ~Expired(t) /\ ~Decodes(t)
    /\ \E u \in users : ~u.is_active /\ RoleNamesOf(u.id) = <<"admin">>

\* the state of the store a gated request with token t meets
Subject(t) == get_by_username(decode_access_token(t).username)
Resolves(t) == Decodes(t) /\ Found(Subject(t))
IsActive(t) == Resolves(t) /\ Subject(t).is_active
HoldsAdmin(t) == Resolves(t) /\ "admin" \in SeqToSet(RoleNamesOf(Subject(t).id))
Gated == {"me", "roles"}

\* C17: the answer to a gated request is that of the first failing check in the order
\* token decode (401), user lookup (401), active flag (400), admin role (403), and the
\* checks after the failing one are not made: an undecodable token triggers no lookup,
\* an inactive user without the admin role gets the inactive answer.
C17_LinearGate ==
    last.op \in Gated =>
        LET t == last.token IN
        /\ ~Decodes(t) => /\ last.status = 401 /\ last.detail = "Invalid or expired token"
                          /\ last.steps = <<"decode">>
        /\ (Decodes(t) /\ ~Resolves(t))
              => /\ last.status = 401 /\ last.detail = "User not found"
                 /\ last.steps = <<"decode", "lookup">>
        /\ (last.op = "me" /\ Resolves(t))
              => last.status = 200 /\ last.steps = <<"decode", "lookup">>
        /\ (last.op = "roles" /\ Resolves(t) /\ ~IsActive(t))
              => /\ last.status = 400 /\ last.detail = "Inactive user"
                 /\ last.steps = <<"decode", "lookup", "active">>
        /\ (last.op = "roles" /\ IsActive(t) /\ ~HoldsAdmin(t))
              => /\ last.status = 403 /\ last.detail = "Admin access required"
                 /\ last.steps = <<"decode", "lookup", "active", "admin">>
        /\ (last.op = "roles" /\ IsActive(t) /\ HoldsAdmin(t))
              => last.status = 200 /\ last.steps = <<"decode", "lookup", "active", "admin">>

C17_Witness ==
    /\ last.op = "roles" /\ last.status = 400
    /\ Resolves(last.token) /\ ~IsActive(last.token) /\ ~HoldsAdmin(last.token)
    /\ last.steps = <<"decode", "lookup", "active">>

\* C18: a role listing whose token decodes and names an existing user answers 200 with
\* the roles exactly when that user is active and holds the admin role in the store at
\* the time of the request, and 403 when the user is active without it; the role claim
\* of the token plays no part.
C18_AdminFromStore ==
    (last.op = "roles" /\ Resolves(last.token)) =>
        /\ last.status = 200 <=> (IsActive(last.token) /\ HoldsAdmin(last.token))
        /\ (IsActive(last.token) /\ ~HoldsAdmin(last.token)) => last.status = 403
        /\ last.status = 200 => last.role_list = RoleResponses

C18_Witness ==
    /\ last.op = "roles" /\ last.status = 200
    /\ last.token.payload.role = "user"
    /\ \E t \in tokens : t.payload.role = "admin"

\* C19 (as claimed): a gated request with an unexpired token whose subject's user row
\* was deleted is answered 401.
C19_DeletedUserRejected ==
    (last.op \in Gated /\ last.token \in orphaned /\ ~Expired(last.token))
        => last.status = 401

\* C20: a role listing whose token decodes and names a user whose is_active flag is
\* false answers 400 "Inactive user", whenever the token was issued and whatever roles
\* the user holds.
C20_InactiveRejected ==
    (last.op = "roles" /\ Resolves(last.token) /\ ~IsActive(last.token))
        => last.status = 400 /\ last.detail = "Inactive user"

C20_Witness ==
    /\ last.op = "roles" /\ last.status = 400
    /\ HoldsAdmin(last.token)
    /\ last.token.payload.role = "admin"
    /\ \E i \in issued : i.token = last.token /\ i.at = now

----------------------------------------------------------------------------
(* Properties of BaseFlow.run *)

\* C30 (as claimed): after any sequence of runs, state.error is set exactly when
\* state.status is "failed"; a run that returned leaves status "completed", a run that
\* raised leaves status "failed", and completed_at is set after both.
C30_ErrorIffFailed ==
    last.op = "run" =>
        /\ state.error # None <=> state.status = "failed"
        /\ state.completed_at # <<>>
        /\ last.raised <=> state.status = "failed"
        /\ ~last.raised <=> state.status = "completed"

----------------------------------------------------------------------------
(* Properties of the role/permission graph *)

\* the union of the permission sets of the user's roles
EffectivePermissions(uid) ==
    UNION {{perm.name : perm \in PermissionsOf(role.id)} : role \in RolesOf(uid)}

\* C21: has_permission(user, p) is true exactly when p is in the union of the
\* permission sets of the user's roles, has_role(user, r) exactly when r is the name of
\* one of the user's roles, and neither call changes anything.
C21_Step ==
    LET user == get_by_username("alice") IN
    /\ \A permission \in AskedPermissions :
         CheckPermission("alice", permission) =>
            /\ last'.result <=> permission \in EffectivePermissions(user.id)
            /\ UNCHANGED <<store, tokens, issued, created>>
    /\ \A role_name \in AskedRoles :
         CheckRole("alice", role_name) =>
            /\ last'.result <=> role_name \in SeqToSet(RoleNamesOf(user.id))
            /\ UNCHANGED <<store, tokens, issued, created>>
C21_SetMembership == [][C21_Step]_vars

C21_Witness ==
    /\ last.op = "has_permission" /\ last.permission = "reports.read" /\ last.result
    /\ RoleNamesOf(get_by_username("alice").id) = <<"admin", "user">>
    /\ ~has_permission(get_by_username("alice"), "users.read")
    /\ \E rp \in role_permissions : rp[1] = role_get_by_name(roles, "user").id

\* C22 (as claimed): every user_roles row names an existing user and an existing role,
\* every role_permissions row an existing role and an existing permission.
C22_ReferentialIntegrity ==
    /\ \A ur \in user_roles : ur[1] \in Ids(users) /\ ur[2] \in Ids(roles)
    /\ \A rp \in role_permissions : rp[1] \in Ids(roles) /\ rp[2] \in Ids(permissions)

----------------------------------------------------------------------------
(* Properties of hashing, lookup and registration *)

\* C24 (as claimed): hashing and verification cut a password at the same 72 bytes:
\* every password that agrees with the registered one on its first 72 bytes, the
\* registered password itself included, verifies against the stored hash.
C24_SameTruncation ==
    \A u \in users : \A p \in LoginPasswords :
        Take(Encode(p), BCRYPT_MAX_PASSWORD_LENGTH)
            = Take(Encode(created[u.id].password), BCRYPT_MAX_PASSWORD_LENGTH)
        => verify_password(p, u.hashed_password)

\* C25: authenticate_user looks the identifier up as a username first: when a user
\* has the identifier as its username, the login is decided by that user's hash
\* alone (that user on a verifying password, no user otherwise), whether or not
\* another account has the identifier as its email.
C25_Step ==
    \A username \in Identifiers, password \in LoginPasswords :
        (Login(username, password) /\ Taken(username))
        => LET owner == CHOOSE u \in users : u.username = username
           IN /\ authenticate_user(username, password) =
                    IF verify_password(password, owner.hashed_password)
                    THEN owner ELSE NoUser
              /\ (last'.status = 401) <=> ~verify_password(password, owner.hashed_password)
              /\ last'.status = 200 => last'.access_token.payload.sub = owner.username
C25_UsernameFirst == [][C25_Step]_vars

C25_Witness ==
    /\ last.op = "login" /\ last.status = 200
    /\ \E u, v \in users :
          /\ u.username = last.login_data.username
          /\ v.email = last.login_data.username
          /\ v.id # u.id
          /\ v.hashed_password # u.hashed_password
          /\ last.access_token.payload.sub = u.username

\* C27 (as claimed): registration is atomic for the other requests: while the
\* default role exists, the committed tables never hold a user that register_user
\* has created and that is without its default role.
C27_RegistrationAtomic ==
    \A w \in Workers :
        LET role == role_get_by_name(roles, "user")
        IN (/\ pc[w] = "reg_role"
            /\ req[w].role_name = "user"
            /\ Found(role)
            /\ \E u \in users : u.id = req[w].id)
           => <<req[w].id, role.id>> \in user_roles

\* C28: a registration that is refused for a duplicate username or a duplicate
\* email answers 400 and leaves every table as it was: no user, role or association
\* row is added or changed, the existing accounts keep their hash and their roles,
\* and no token is issued.
C28_Step ==
    \A user_data \in UserData :
        (/\ RegisterUser(user_data, "user")
         /\ \/ Found(get_by_username(user_data.username))
            \/ Found(get_by_email(user_data.email)))
        => /\ last'.op = "register" /\ last'.status = 400
           /\ UNCHANGED <<users, roles, permissions, user_roles, role_permissions>>
           /\ UNCHANGED <<tokens, created>>
C28_DuplicateLeavesStore == [][C28_Step]_vars

C28_Witness ==
    /\ last.op = "register" /\ last.status = 400
    /\ \E u \in users : RoleIdsOf(u.id) # {}

----------------------------------------------------------------------------
(* Properties of concurrent seeding and of create_admin *)

\* C26 (as claimed): when two seeding runs are interleaved, no commit of either run
\* raises, and once both are done the store holds one row per seed role and seed
\* permission and one admin grant per permission.
C26_ConcurrentSeeding ==
    /\ \A s \in Seeders : spc[s] # "failed"
    /\ (\A s \in Seeders : spc[s] = "done")
       => /\ \A n \in SeedRoleNames : Cardinality({r \in roles : r.name = n}) = 1
          /\ \A n \in SeedPermNames : Cardinality({q \in permissions : q.name = n}) = 1
          /\ SeedPermIds \subseteq AdminPermIds

\* C29: when create_admin_async returns True the new user is in the store, is
\* active and has the role set {admin}, one role is named admin, and the admin role
\* holds every seed permission; when the username or the email is taken it returns
\* False and adds no user, role, permission or association.
C29_Step ==
    /\ (CaCreateUser /\ last'.result = "True")
       => /\ Cardinality({r \in roles' : r.name = "admin"}) = 1
          /\ \E u \in users' \ users :
                /\ u.username = creq.username /\ u.email = creq.email
                /\ u.is_active
                /\ {ur[2] : ur \in {x \in user_roles' : x[1] = u.id}}
                       = {r.id : r \in {x \in roles' : x.name = "admin"}}
          /\ \A n \in SeedPermNames :
                \E q \in permissions', r \in roles' :
                    /\ q.name = n /\ r.name = "admin"
                    /\ <<r.id, q.id>> \in role_permissions'
    /\ \A admin_data \in AdminData :
          (CaCheckUsername(admin_data) /\ Found(get_by_username(admin_data.username)))
          => /\ last' = [op |-> "create_admin", result |-> "False"]
             /\ UNCHANGED <<users, roles, permissions, user_roles, role_permissions>>
    /\ (CaCheckEmail /\ Found(get_by_email(creq.email)))
       => /\ last' = [op |-> "create_admin", result |-> "False"]
          /\ cpc' = "idle"
          /\ UNCHANGED <<users, roles, permissions, user_roles, role_permissions>>
C29_CreateAdmin == [][C29_Step]_vars

C29_Witness ==
    /\ last = [op |-> "create_admin", result |-> "True"]
    /\ \E u \in users : u.username = "alice" /\ RoleIdsOf(u.id) = {AdminRole.id}
    /\ SeedPermIds \subseteq AdminPermIds
    /\ Cardinality(SeedPermIds) = Len(default_permissions)

----------------------------------------------------------------------------
(* Properties of the request session *)

\* the rows a later request can see are rows some commit has written
C23_Clean ==
    \A w \in Workers :
        /\ db_session[w].state \in {"none", "closed"} => db_session[w].pending = {}
        /\ Len(created) = Cardinality(users)

C23_Step ==
    \A w \in Workers :
        /\ GetDbClose(w) => /\ users' = users
                            /\ db_session'[w].pending = {}
        /\ (db_session[w].state = "raised" /\ db_session'[w] # db_session[w])
           => /\ db_session'[w].state = "closed"
              /\ users' = users
        /\ GetDb(w) => db_session'[w].pending = {}

\* C23: a request that got a session from get_db has it closed in the end, on a
\* return of the handler and on a raise alike, and what a failed request added and
\* did not commit never reaches the tables the later requests read.
C23_SessionReleased ==
    /\ \A w \in Workers :
          (db_session[w].state \in {"open", "returned", "raised"})
              ~> (db_session[w].state = "closed")
    /\ [](C23_Clean)
    /\ [][C23_Step]_vars

C23_Witness ==
    \E w, v \in Workers :
        /\ db_session[w] = [state |-> "closed", pending |-> {}, outcome |-> "raised"]
        /\ db_session[v].state = "closed" /\ db_session[v].outcome = "returned"
        /\ users # {}

====
